---- MODULE Spec2Model ----
(***************************************************************************)
(* Model of the Terraform Cloud connector                                  *)
(* (Apps/phterraformcloud/terraformcloud_connector.py).                    *)
(*                                                                         *)
(* Text (response bodies, messages) is a sequence of tokens.  A token is   *)
(* either one character ("{", "}", "a", " ", "\n") or an atomic lexeme     *)
(* that contains no brace and no whitespace ("null", "<b>", a quoted JSON  *)
(* string, a quoted key with its colon, the decimal form of a status       *)
(* code, a literal piece of a message template).                           *)
(*                                                                         *)
(* A JSON / Python value is a function from paths (sequences of keys) to   *)
(* leaves: None is (<<>> :> "None"), the empty dict is (<<>> :> "{}");     *)
(* a non-empty dict is the set of the paths to its leaves.                 *)
(*                                                                         *)
(* The connector handles one action per run of the process: construction   *)
(* and initialize(), then one call of handle_action.                       *)
(***************************************************************************)
EXTENDS Integers, Sequences, FiniteSets, TLC

VARIABLES pc, action_id, param, result, ret, call, num_requests

vars == <<pc, action_id, param, result, ret, call, num_requests>>

----------------------------------------------------------------------------
(* Bounds of the model                                                     *)

MaxLen == 2

----------------------------------------------------------------------------
(* Text                                                                    *)

Alphabet == {"{", "}", "a", "<b>", " ", "\n", "null"}

RECURSIVE SeqsUpTo(_, _)
SeqsUpTo(S, n) ==
    IF n = 0 THEN {<<>>}
    ELSE LET shorter == SeqsUpTo(S, n - 1)
         IN  shorter \cup {Append(s, c) : s \in shorter, c \in S}

SampleBodies ==
    { <<"a", "{", "a">>,
      <<"<b>", " ", "a", "{", "\n", "\n", "a", " ", "</b>">>,
      <<"{", "\"data\":", "null", "}">>,
      <<"{", "\"data\":", "\"ws-1\"", "}">>,
      <<"{", "\"data\":", "{", "}", "}">>,
      <<"{", "\"data\":", "{", "\"id\":", "\"ws-1\"", "}", "}">>,
      <<"{", "\"id\":", "\"ws-1\"", "}">>,
      <<"\"ws-1\"">> }

Bodies == SeqsUpTo(Alphabet, MaxLen) \cup SampleBodies

RECURSIVE Concat(_)
Concat(ss) == IF ss = <<>> THEN <<>> ELSE Head(ss) \o Concat(Tail(ss))

\* sub occurs in s as a contiguous run: Python's  sub in s
Contains(s, sub) ==
    \E i \in 0..(Len(s) - Len(sub)) : SubSeq(s, i + 1, i + Len(sub)) = sub

\* str.replace('{', '{{').replace('}', '}}')
EscapeBraces(s) ==
    Concat([i \in 1..Len(s) |->
              IF s[i] = "{" THEN <<"{", "{">>
              ELSE IF s[i] = "}" THEN <<"}", "}">>
              ELSE <<s[i]>>])

Whitespace == {" ", "\n"}

\* str.strip()
RECURSIVE LStrip(_)
LStrip(s) == IF s # <<>> /\ Head(s) \in Whitespace THEN LStrip(Tail(s)) ELSE s

RECURSIVE RStrip(_)
RStrip(s) ==
    IF s # <<>> /\ s[Len(s)] \in Whitespace
    THEN RStrip(SubSeq(s, 1, Len(s) - 1)) ELSE s

Strip(s) == LStrip(RStrip(s))

\* str.split('\n'): the sequence of the lines of s
RECURSIVE Split(_)
Split(s) ==
    IF \A i \in 1..Len(s) : s[i] # "\n" THEN <<s>>
    ELSE LET k == CHOOSE i \in 1..Len(s) :
                     s[i] = "\n" /\ \A j \in 1..(i - 1) : s[j] # "\n"
         IN  <<SubSeq(s, 1, k - 1)>> \o Split(SubSeq(s, k + 1, Len(s)))

\* '\n'.join(lines)
RECURSIVE Join(_)
Join(lines) ==
    IF lines = <<>> THEN <<>>
    ELSE IF Len(lines) = 1 THEN lines[1]
    ELSE lines[1] \o <<"\n">> \o Join(Tail(lines))

RECURSIVE NonBlankStripped(_)
NonBlankStripped(lines) ==
    IF lines = <<>> THEN <<>>
    ELSE IF Strip(Head(lines)) # <<>>
         THEN <<Strip(Head(lines))>> \o NonBlankStripped(Tail(lines))
         ELSE NonBlankStripped(Tail(lines))

\* BeautifulSoup(text, "html.parser").text: the text with the tags removed
Tags == {"<b>", "</b>"}

RECURSIVE SoupText(_)
SoupText(s) ==
    IF s = <<>> THEN <<>>
    ELSE IF Head(s) \in Tags THEN SoupText(Tail(s))
    ELSE <<Head(s)>> \o SoupText(Tail(s))

----------------------------------------------------------------------------
(* JSON and Python values                                                  *)

None == (<<>> :> "None")

EmptyDict == (<<>> :> "{}")

IsDict(v) == <<>> \notin DOMAIN v \/ v[<<>>] = "{}"

\* the value v as the member k of a dict with that single member
Nest(k, v) == [p \in {<<k>> \o q : q \in DOMAIN v} |-> v[Tail(p)]]

HasKey(v, k) == \E p \in DOMAIN v : p # <<>> /\ Head(p) = k

\* d[k] of a dict that has the key k
Member(v, k) ==
    [q \in {Tail(p) : p \in {x \in DOMAIN v : x # <<>> /\ Head(x) = k}}
       |-> v[<<k>> \o q]]

\* dict.get(k, default)
DictGet(v, k, default) == IF HasKey(v, k) THEN Member(v, k) ELSE default

\* bool(v) of a leaf value
Truthy(v) == v \notin {"None", "", "False"}

KeyOf(tok) == IF tok = "\"data\":" THEN "data" ELSE "id"

KeyTokens == {"\"data\":", "\"id\":"}

ParseFail == [ok |-> FALSE, val |-> None, rest |-> <<>>]

\* json.loads on the token text: one value, then the rest of the text
RECURSIVE ParseValue(_)
ParseValue(s) ==
    LET t == LStrip(s) IN
    IF t = <<>> THEN ParseFail
    ELSE IF Head(t) = "null"
         THEN [ok |-> TRUE, val |-> None, rest |-> Tail(t)]
    ELSE IF Head(t) = "\"ws-1\""
         THEN [ok |-> TRUE, val |-> (<<>> :> "ws-1"), rest |-> Tail(t)]
    ELSE IF Head(t) = "{"
         THEN LET u == LStrip(Tail(t)) IN
              IF u = <<>> THEN ParseFail
              ELSE IF Head(u) = "}"
                   THEN [ok |-> TRUE, val |-> EmptyDict, rest |-> Tail(u)]
              ELSE IF Head(u) \in KeyTokens
                   THEN LET m == ParseValue(Tail(u))
                            w == LStrip(m.rest)
                        IN  IF m.ok /\ w # <<>> /\ Head(w) = "}"
                            THEN [ok |-> TRUE,
                                  val |-> Nest(KeyOf(Head(u)), m.val),
                                  rest |-> Tail(w)]
                            ELSE ParseFail
              ELSE ParseFail
    ELSE ParseFail

\* r.json(): ok is FALSE when the parse raises
RJson(text) ==
    LET p == ParseValue(text)
    IN  IF p.ok /\ LStrip(p.rest) = <<>> THEN [ok |-> TRUE, val |-> p.val]
        ELSE [ok |-> FALSE, val |-> None]

----------------------------------------------------------------------------
(* The host's ActionResult and RetVal                                      *)

APP_SUCCESS == "APP_SUCCESS"

APP_ERROR == "APP_ERROR"

\* phantom.is_fail(ret_val)
is_fail(ret_val) == ret_val # APP_SUCCESS

\* ActionResult(dict(param)): no status, no message, no data, empty summary
ActionResult == [status |-> "unset", message |-> <<>>, data |-> <<>>,
                 summary |-> EmptyDict]

\* action_result.set_status(status, message); it returns the status
set_status(action_result, status, message) ==
    [action_result EXCEPT !.status = status, !.message = message]

\* action_result.add_data(item)
add_data(action_result, item) ==
    [action_result EXCEPT !.data = Append(@, item)]

\* RetVal(val1, val2), with the accumulator the call leaves behind
RetVal(val1, val2, action_result) ==
    [ret_val |-> val1, response |-> val2, action_result |-> action_result]

\* RetVal(action_result.set_status(phantom.APP_ERROR, message), None)
RetError(action_result, message) ==
    RetVal(APP_ERROR, None, set_status(action_result, APP_ERROR, message))

----------------------------------------------------------------------------
(* What the transport returns                                              *)

StatusCodes == {199, 200, 201, 398, 399, 404}

\* values of the Content-Type header, '' when the header is absent
ContentTypes == { <<"application/", "json">>, <<"text/", "html">>,
                  <<"text/", "plain">>, <<"application/x", "html", "+", "json">>,
                  <<>> }

Causes == {"ConnectionError", "Timeout"}

NoResponse == [kind |-> "none", status_code |-> 0, content_type |-> <<>>,
               text |-> <<>>, soup_raises |-> FALSE, cause |-> ""]

Response(code, ctype, text, raises) ==
    [kind |-> "response", status_code |-> code, content_type |-> ctype,
     text |-> text, soup_raises |-> raises, cause |-> ""]

Raised(cause) == [NoResponse EXCEPT !.kind = "exception", !.cause = cause]

\* 'json' in r.headers.get('Content-Type', '')
InContentType(word, r) == \E i \in 1..Len(r.content_type) : r.content_type[i] = word

\* the outcomes of one request: a response, or an exception of the transport;
\* the html parser can only raise where it runs
Nets ==
    {Response(c, t, b, FALSE) : c \in StatusCodes, t \in ContentTypes, b \in Bodies}
    \cup {Response(c, <<"text/", "html">>, b, TRUE) : c \in StatusCodes, b \in Bodies}
    \cup {Raised(e) : e \in Causes}

----------------------------------------------------------------------------
(* Response classification                                                 *)

\* faulty variant: every 2xx status counts as an empty success
_process_empty_response_2xx(response, action_result) ==
    IF 200 <= response.status_code /\ response.status_code < 300
    THEN RetVal(APP_SUCCESS, EmptyDict, action_result)
    ELSE RetError(action_result,
                  <<"Empty response and no information in the header">>)

_process_empty_response(response, action_result) ==
    IF response.status_code = 200
    THEN RetVal(APP_SUCCESS, EmptyDict, action_result)
    ELSE RetError(action_result,
                  <<"Empty response and no information in the header">>)

\* error_text of _process_html_response
HtmlErrorText(response) ==
    IF response.soup_raises THEN <<"Cannot parse error details">>
    ELSE Join(NonBlankStripped(Split(SoupText(response.text))))

\* faulty variant: the lines are joined as they come, blank ones included
_process_html_response_keepblank(response, action_result) ==
    LET error_text == IF response.soup_raises THEN <<"Cannot parse error details">>
                      ELSE Join(Split(SoupText(response.text)))
        message == <<"Status Code: ", ToString(response.status_code),
                     ". Data from server:\n">> \o error_text \o <<"\n">>
    IN  RetError(action_result, EscapeBraces(message))

_process_html_response(response, action_result) ==
    LET message == <<"Status Code: ", ToString(response.status_code),
                     ". Data from server:\n">>
                   \o HtmlErrorText(response) \o <<"\n">>
    IN  RetError(action_result, EscapeBraces(message))

\* faulty variant: the failure hands the parsed body back as its payload
_process_json_response_payload(r, action_result) ==
    LET resp_json == RJson(r.text) IN
    IF ~resp_json.ok
    THEN RetError(action_result,
                  <<"Unable to parse JSON response. Error: ", "ValueError">>)
    ELSE IF 200 <= r.status_code /\ r.status_code < 399
    THEN RetVal(APP_SUCCESS, resp_json.val, action_result)
    ELSE RetVal(APP_ERROR, resp_json.val,
                set_status(action_result, APP_ERROR,
                  <<"Error from server. Status Code: ", ToString(r.status_code),
                    " Data from server: ">> \o EscapeBraces(r.text)))

\* faulty variant: the success range ends at 399 inclusive
_process_json_response_le399(r, action_result) ==
    LET resp_json == RJson(r.text) IN
    IF ~resp_json.ok
    THEN RetError(action_result,
                  <<"Unable to parse JSON response. Error: ", "ValueError">>)
    ELSE IF 200 <= r.status_code /\ r.status_code <= 399
    THEN RetVal(APP_SUCCESS, resp_json.val, action_result)
    ELSE RetError(action_result,
                  <<"Error from server. Status Code: ", ToString(r.status_code),
                    " Data from server: ">> \o EscapeBraces(r.text))

_process_json_response(r, action_result) ==
    LET resp_json == RJson(r.text) IN
    IF ~resp_json.ok
    THEN RetError(action_result,
                  <<"Unable to parse JSON response. Error: ", "ValueError">>)
    ELSE IF 200 <= r.status_code /\ r.status_code < 399
    THEN RetVal(APP_SUCCESS, resp_json.val, action_result)
    ELSE RetError(action_result,
                  <<"Error from server. Status Code: ", ToString(r.status_code),
                    " Data from server: ">> \o EscapeBraces(r.text))

\* faulty variant: a body of an unrecognized content type goes the way of
\* the empty response
_process_response_noerr(r, action_result) ==
    IF InContentType("json", r) THEN _process_json_response(r, action_result)
    ELSE IF InContentType("html", r) THEN _process_html_response(r, action_result)
    ELSE _process_empty_response(r, action_result)

_process_response(r, action_result) ==
    IF InContentType("json", r) THEN _process_json_response(r, action_result)
    ELSE IF InContentType("html", r) THEN _process_html_response(r, action_result)
    ELSE IF r.text = <<>> THEN _process_empty_response(r, action_result)
    ELSE RetError(action_result,
                  <<"Can't process response from server. Status Code: ",
                    ToString(r.status_code), " Data from server: ">>
                  \o EscapeBraces(r.text))

----------------------------------------------------------------------------
(* The gateway call                                                        *)

\* the attributes of the requests module that send a request
RequestsVerbs == {"get", "options", "head", "post", "put", "patch", "delete"}

\* attributes of the requests module that are no HTTP verb: calling one
\* with (url, verify=, headers=) raises TypeError before anything is sent
RequestsOtherAttrs == {"request", "session", "codes"}

\* getattr(requests, method) does not raise AttributeError
HasAttr(method) == method \in RequestsVerbs \cup RequestsOtherAttrs

NoHeaders == [k \in {} |-> ""]

JsonApiHeaders == ("Content-Type" :> "application/vnd.api+json")

\* the record of one gateway call
Called(endpoint, method, _headers, kwargs, sent, r, rv) ==
    [made |-> TRUE, endpoint |-> endpoint, method |-> method,
     headers |-> _headers, kwargs |-> kwargs, sent |-> sent, r |-> r,
     ret_val |-> rv.ret_val, response |-> rv.response,
     action_result |-> rv.action_result]

NoKwargs == [json |-> None, params |-> None]

NotCalled ==
    [made |-> FALSE, endpoint |-> <<>>, method |-> "", headers |-> NoHeaders,
     kwargs |-> NoKwargs, sent |-> FALSE, r |-> NoResponse,
     ret_val |-> "unset", response |-> None, action_result |-> ActionResult]

\* faulty variant: the message of a transport error leaves the cause out
_make_rest_call_nocause(endpoint, action_result, method, headers, kwargs, net) ==
    LET _headers == headers @@ ("authorization" :> "Bearer token") IN
    IF ~HasAttr(method)
    THEN Called(endpoint, method, _headers, kwargs, FALSE, NoResponse,
                RetError(action_result, <<"Invalid method: ", method>>))
    ELSE IF method \notin RequestsVerbs
    THEN Called(endpoint, method, _headers, kwargs, FALSE, Raised("TypeError"),
                RetError(action_result,
                         <<"Error Connecting to server. Details: ", "TypeError">>))
    ELSE IF net.kind = "exception"
    THEN Called(endpoint, method, _headers, kwargs, TRUE, net,
                RetError(action_result,
                         <<"Error Connecting to server. Details: ">>))
    ELSE Called(endpoint, method, _headers, kwargs, TRUE, net,
                _process_response(net, action_result))

\* net is what the transport does if a request is sent
_make_rest_call(endpoint, action_result, method, headers, kwargs, net) ==
    LET _headers == headers @@ ("authorization" :> "Bearer token") IN
    IF ~HasAttr(method)
    THEN Called(endpoint, method, _headers, kwargs, FALSE, NoResponse,
                RetError(action_result, <<"Invalid method: ", method>>))
    ELSE IF method \notin RequestsVerbs
    THEN Called(endpoint, method, _headers, kwargs, FALSE, Raised("TypeError"),
                RetError(action_result,
                         <<"Error Connecting to server. Details: ", "TypeError">>))
    ELSE IF net.kind = "exception"
    THEN Called(endpoint, method, _headers, kwargs, TRUE, net,
                RetError(action_result,
                         <<"Error Connecting to server. Details: ", net.cause>>))
    ELSE Called(endpoint, method, _headers, kwargs, TRUE, net,
                _process_response(net, action_result))

----------------------------------------------------------------------------
(* Parameters of the actions                                               *)

NoParam == [k \in {} |-> ""]

\* param.get(k, default); param.get(k) is Get(param, k, "None")
Get(p, k, default) == IF k \in DOMAIN p THEN p[k] ELSE default

\* the mappings that give every required key its value and any of the
\* optional keys one of its values
ParamsOf(required, optional) ==
    UNION { { required @@ o : o \in [ks -> UNION {optional[k] : k \in ks}] }
            : ks \in SUBSET DOMAIN optional }

WellTyped(p, optional) == \A k \in DOMAIN p : k \in DOMAIN optional => p[k] \in optional[k]

Params(required, optional) ==
    {p \in ParamsOf(required, optional) : WellTyped(p, optional)}

ParamsListWorkspaces ==
    Params(("organization_name" :> "org"), ("page_num" :> {"2"}))

ParamsListRuns == Params(("id" :> "ws-1"), ("page_size" :> {"5"}))

ParamsCreateRun ==
    Params(("workspace_id" :> "ws-1"),
           ("configuration_version" :> {"cv-1"}) @@ ("is_destroy" :> {"True"}))

ParamsCreateWorkspace ==
    Params(("organization_name" :> "org") @@ ("workspace_name" :> "w"),
           ("description" :> {"d"}) @@ ("vcs_repo_id" :> {"", "repo"})
           @@ ("vcs_token_id" :> {"", "tok"}))

ParamsApplyRun == Params(("id" :> "run-1"), ("comment" :> {"", "c"}))

ParamsById == {("id" :> "x-1")}

ParamsGetWorkspace ==
    Params(NoParam,
           ("id" :> {"", "ws-1"}) @@ ("organization_name" :> {"org"})
           @@ ("workspace_name" :> {"w"}))

----------------------------------------------------------------------------
(* The action handlers.  Each yields how the handler ends: it returned     *)
(* ret, or an exception left it (fault), with the accumulator it added     *)
(* to the run and the gateway call it made.                                *)

Returned(action_result, c) ==
    [pc |-> "returned", ret |-> action_result.status,
     result |-> action_result, call |-> c]

Fault(action_result, c) ==
    [pc |-> "fault", ret |-> "unset", result |-> action_result, call |-> c]

\* faulty variant: the success status is set and the item is not recorded
Succeed_nodata(action_result, item, c) ==
    Returned(set_status(action_result, APP_SUCCESS, <<>>), c)

\* action_result.add_data(item); return action_result.set_status(APP_SUCCESS)
Succeed(action_result, item, c) ==
    Returned(set_status(add_data(action_result, item), APP_SUCCESS, <<>>), c)

\* the tail shared by the handlers that record the whole response
RecordResponse(c) ==
    IF is_fail(c.ret_val) THEN Returned(c.action_result, c)
    ELSE Succeed(c.action_result, c.response, c)

\* the tail shared by the handlers that record response.get('data', {})
RecordData(c) ==
    IF is_fail(c.ret_val) THEN Returned(c.action_result, c)
    ELSE IF ~IsDict(c.response) THEN Fault(c.action_result, c)
    ELSE Succeed(c.action_result, DictGet(c.response, "data", EmptyDict), c)

PageParams(page_num, page_size) ==
    (<<"page[num]">> :> page_num) @@ (<<"page[size]">> :> page_size)

_handle_test_connectivity(p, net) ==
    LET c == _make_rest_call(<<"TERRAFORM_ENDPOINT_ACCOUNT_DETAILS">>,
                             ActionResult, "get", NoHeaders, NoKwargs, net)
    IN  IF is_fail(c.ret_val) THEN Returned(c.action_result, c)
        ELSE Returned(set_status(c.action_result, APP_SUCCESS, <<>>), c)

_handle_list_workspaces(p, net) ==
    LET params == PageParams(Get(p, "page_num", "1"), Get(p, "page_size", "100"))
        endpoint == <<"TERRAFORM_ENDPOINT_WORKSPACES", p["organization_name"]>>
    IN  RecordResponse(_make_rest_call(endpoint, ActionResult, "get", NoHeaders,
                                       [json |-> None, params |-> params], net))

_handle_list_runs(p, net) ==
    LET params == PageParams(Get(p, "page_num", "1"), Get(p, "page_size", "20"))
        endpoint == <<"TERRAFORM_ENDPOINT_LIST_RUNS", p["id"]>>
    IN  RecordResponse(_make_rest_call(endpoint, ActionResult, "get", NoHeaders,
                                       [json |-> None, params |-> params], net))

_handle_create_run(p, net) ==
    LET params ==
            (<<"data", "attributes", "is-destroy">> :> Get(p, "is_destroy", "False"))
            @@ (<<"data", "attributes", "message">> :> Get(p, "message", "None"))
            @@ (<<"relationships", "workspace", "data", "type">> :> "workspaces")
            @@ (<<"relationships", "workspace", "data", "id">> :> p["workspace_id"])
            @@ (<<"configuration-version", "data", "type">> :> "configuration-versions")
            @@ (<<"configuration-version", "data", "id">>
                    :> Get(p, "configuration_version", "None"))
    IN  RecordResponse(_make_rest_call(<<"TERRAFORM_ENDPOINT_RUNS">>, ActionResult,
                                       "post", JsonApiHeaders,
                                       [json |-> params, params |-> None], net))

\* faulty variant: only an absent token id counts as missing
VcsTokenMissing_absent(p) ==
    Truthy(Get(p, "vcs_repo_id", "None")) /\ "vcs_token_id" \notin DOMAIN p

\* a repository id is given and no token id comes with it
VcsTokenMissing(p) ==
    Truthy(Get(p, "vcs_repo_id", "None")) /\ ~Truthy(Get(p, "vcs_token_id", "None"))

_handle_create_workspace(p, net) ==
    LET description ==
            IF Truthy(Get(p, "description", "None"))
            THEN (<<"attributes", "description">> :> p["description"])
            ELSE [k \in {} |-> ""]
        vcs_repo ==
            IF Truthy(Get(p, "vcs_repo_id", "None"))
            THEN (<<"attributes", "vcs-repo", "identifier">>
                      :> Get(p, "vcs_repo_id", "None"))
                 @@ (<<"attributes", "vcs-repo", "oauth-token-id">>
                      :> Get(p, "vcs_token_id", "None"))
            ELSE [k \in {} |-> ""]
        post_data ==
            (<<"type">> :> "workspaces")
            @@ (<<"attributes", "name">> :> p["workspace_name"])
            @@ description @@ vcs_repo
            @@ (<<"attributes", "file-triggers-enabled">>
                    :> Get(p, "file_triggers_enabled", "True"))
            @@ (<<"attributes", "auto-apply">> :> Get(p, "auto_apply", "False"))
            @@ (<<"attributes", "queue-all-runs">> :> Get(p, "queue_all_runs", "False"))
        endpoint == <<"TERRAFORM_ENDPOINT_WORKSPACES", p["organization_name"]>>
        c == _make_rest_call(endpoint, ActionResult, "post", JsonApiHeaders,
                             [json |-> Nest("data", post_data), params |-> None], net)
        resp_data == DictGet(c.response, "data", EmptyDict)
        recorded == add_data(c.action_result, resp_data)
    IN  IF VcsTokenMissing(p)
        THEN Returned(set_status(ActionResult, APP_ERROR,
                 <<"IF a VCS repo is to be linked to this workspace, both ",
                   "the repository ID", " and ", "the token ID",
                   " are required.">>), NotCalled)
        ELSE IF is_fail(c.ret_val) THEN Returned(c.action_result, c)
        ELSE IF ~IsDict(c.response) THEN Fault(c.action_result, c)
        ELSE IF ~IsDict(resp_data) THEN Fault(recorded, c)
        ELSE Returned(set_status(
                 [recorded EXCEPT !.summary =
                      Nest("workspace_id", DictGet(resp_data, "id", None))],
                 APP_SUCCESS, <<>>), c)

_handle_apply_run(p, net) ==
    LET comment == Get(p, "comment", "None")
        params == IF Truthy(comment) THEN (<<"comment">> :> comment) ELSE EmptyDict
        endpoint == <<"TERRAFORM_ENDPOINT_APPLY_RUN", p["id"]>>
    IN  RecordResponse(_make_rest_call(endpoint, ActionResult, "post", JsonApiHeaders,
                                       [json |-> params, params |-> None], net))

_handle_get_apply(p, net) ==
    RecordResponse(_make_rest_call(<<"TERRAFORM_ENDPOINT_APPLIES", p["id"]>>,
                                   ActionResult, "get", NoHeaders, NoKwargs, net))

_handle_get_plan(p, net) ==
    RecordData(_make_rest_call(<<"TERRAFORM_ENDPOINT_PLANS", p["id"]>>,
                               ActionResult, "get", NoHeaders, NoKwargs, net))

_handle_get_run(p, net) ==
    RecordData(_make_rest_call(<<"TERRAFORM_ENDPOINT_RUNS", "/", p["id"]>>,
                               ActionResult, "get", NoHeaders, NoKwargs, net))

_handle_get_workspace(p, net) ==
    LET id == Get(p, "id", "None")
        organization_name == Get(p, "organization_name", "None")
        workspace_name == Get(p, "workspace_name", "None")
        endpoint ==
            IF Truthy(id) THEN <<"TERRAFORM_ENDPOINT_GET_WORKSPACE_BY_ID", id>>
            ELSE <<"TERRAFORM_ENDPOINT_WORKSPACES", organization_name, "/",
                   workspace_name>>
    IN  IF ~Truthy(id) /\ ~(Truthy(organization_name) /\ Truthy(workspace_name))
        THEN Returned(set_status(ActionResult, APP_ERROR,
                 <<"Both the organization name and workspace name must be provided.">>),
                 NotCalled)
        ELSE RecordData(_make_rest_call(endpoint, ActionResult, "get", NoHeaders,
                                        NoKwargs, net))

ActionIds ==
    {"test_connectivity", "list_workspaces", "list_runs", "create_run",
     "create_workspace", "apply_run", "get_apply", "get_plan", "get_run",
     "get_workspace"}

handle_action(id, p, net) ==
    CASE id = "test_connectivity" -> _handle_test_connectivity(p, net)
      [] id = "list_workspaces"   -> _handle_list_workspaces(p, net)
      [] id = "list_runs"         -> _handle_list_runs(p, net)
      [] id = "create_run"        -> _handle_create_run(p, net)
      [] id = "create_workspace"  -> _handle_create_workspace(p, net)
      [] id = "apply_run"         -> _handle_apply_run(p, net)
      [] id = "get_apply"         -> _handle_get_apply(p, net)
      [] id = "get_plan"          -> _handle_get_plan(p, net)
      [] id = "get_run"           -> _handle_get_run(p, net)
      [] id = "get_workspace"     -> _handle_get_workspace(p, net)

----------------------------------------------------------------------------
(* The state machine                                                       *)

\* method strings a caller may pass to the gateway
Methods == {"get", "post", "delete", "request", "codes", "GET", "fetch", ""}

Init ==
    /\ pc = "ready"
    /\ action_id = "none"
    /\ param = NoParam
    /\ result = ActionResult
    /\ ret = "unset"
    /\ call = NotCalled
    /\ num_requests = 0

\* one run of handle_action for the action id
Run(id, ps) ==
    /\ pc = "ready"
    /\ \E p \in ps, net \in Nets :
          \E h \in {handle_action(id, p, net)} :
          /\ pc' = h.pc
          /\ action_id' = id
          /\ param' = p
          /\ result' = h.result
          /\ ret' = h.ret
          /\ call' = h.call
          /\ num_requests' = num_requests + (IF h.call.sent THEN 1 ELSE 0)

TestConnectivity == Run("test_connectivity", {NoParam})

ListWorkspaces == Run("list_workspaces", ParamsListWorkspaces)

ListRuns == Run("list_runs", ParamsListRuns)

CreateRun == Run("create_run", ParamsCreateRun)

CreateWorkspace == Run("create_workspace", ParamsCreateWorkspace)

ApplyRun == Run("apply_run", ParamsApplyRun)

GetApply == Run("get_apply", ParamsById)

GetPlan == Run("get_plan", ParamsById)

GetRun == Run("get_run", ParamsById)

GetWorkspace == Run("get_workspace", ParamsGetWorkspace)

\* one call of the gateway on a fresh accumulator, with any method string
MakeRestCall ==
    /\ pc = "ready"
    /\ \E method \in Methods, net \in Nets :
          \E c \in {_make_rest_call(<<"endpoint">>, ActionResult, method,
                                      NoHeaders, NoKwargs, net)} :
          /\ pc' = "returned"
          /\ action_id' = "_make_rest_call"
          /\ param' = NoParam
          /\ result' = c.action_result
          /\ ret' = c.ret_val
          /\ call' = c
          /\ num_requests' = num_requests + (IF c.sent THEN 1 ELSE 0)

Next ==
    \/ TestConnectivity
    \/ ListWorkspaces
    \/ ListRuns
    \/ CreateRun
    \/ CreateWorkspace
    \/ ApplyRun
    \/ GetApply
    \/ GetPlan
    \/ GetRun
    \/ GetWorkspace
    \/ MakeRestCall

Spec == Init /\ [][Next]_vars

TypeOK ==
    /\ pc \in {"ready", "returned", "fault"}
    /\ action_id \in ActionIds \cup {"none", "_make_rest_call"}
    /\ ret \in {"unset", APP_SUCCESS, APP_ERROR}
    /\ result.status \in {"unset", APP_SUCCESS, APP_ERROR}
    /\ num_requests \in 0..1
    /\ call.sent => call.made

----------------------------------------------------------------------------
(* Properties                                                              *)

\* the gateway sent a request and the server answered it
Answered == call.made /\ call.sent /\ call.r.kind = "response"

Failed == call.ret_val = APP_ERROR /\ call.action_result.status = APP_ERROR

msg == call.action_result.message

IsJson == InContentType("json", call.r)

IsHtml == ~InContentType("json", call.r) /\ InContentType("html", call.r)

IsOther == ~InContentType("json", call.r) /\ ~InContentType("html", call.r)

\* C1: every gateway call returns exactly one outcome: Success with a
\* payload (the parsed body or the empty object) and an accumulator that
\* carries no failure status and no message, or Failure with a message set on
\* the accumulator and no payload.
C1_ExactlyOneOutcome ==
    call.made =>
        \/ /\ call.ret_val = APP_SUCCESS
           /\ call.action_result.status = "unset"
           /\ call.action_result.message = <<>>
           /\ Answered
           /\ call.response \in {EmptyDict, RJson(call.r.text).val}
        \/ /\ call.ret_val = APP_ERROR
           /\ call.action_result.status = APP_ERROR
           /\ call.action_result.message # <<>>
           /\ call.response = None

\* a JSON error answer ended as a failure without payload
C1_Witness ==
    /\ Answered /\ IsJson /\ RJson(call.r.text).ok
    /\ RJson(call.r.text).val # None
    /\ call.r.status_code = 404
    /\ call.ret_val = APP_ERROR /\ call.response = None

\* C2: for every method string that is no supported HTTP verb the gateway
\* returns Failure with the message "Invalid method: <method>" and no
\* network request is issued.
C2_InvalidMethod ==
    (call.made /\ call.method \notin RequestsVerbs) =>
        /\ Failed
        /\ msg = <<"Invalid method: ", call.method>>
        /\ ~call.sent
        /\ num_requests = 0

\* C3: a JSON answer whose body parses is a Success carrying exactly the
\* parsed body if and only if 200 <= status < 399; otherwise it is a Failure
\* whose message contains the status code and the body with every brace
\* doubled.
C3_JsonByStatus ==
    (Answered /\ IsJson /\ RJson(call.r.text).ok) =>
        IF 200 <= call.r.status_code /\ call.r.status_code < 399
        THEN /\ call.ret_val = APP_SUCCESS
             /\ call.response = RJson(call.r.text).val
        ELSE /\ Failed
             /\ Contains(msg, <<ToString(call.r.status_code)>>)
             /\ Contains(msg, EscapeBraces(call.r.text))

\* the JSON object {} came with status 399 and was reported with its braces
\* doubled
C3_Witness ==
    /\ Answered /\ IsJson
    /\ call.r.text = <<"{", "}">>
    /\ call.r.status_code = 399
    /\ Failed
    /\ Contains(msg, <<"{", "{", "}", "}">>)

\* the text an HTML answer is reduced to: tags stripped, the non-blank
\* trimmed lines joined by newline; "Cannot parse error details" stands in
\* for it when the tag-stripping raises
CleanedText(r) ==
    IF r.soup_raises THEN <<"Cannot parse error details">>
    ELSE Join(NonBlankStripped(Split(SoupText(r.text))))

\* C4 as stated: every HTML answer, whatever its status, is a Failure whose
\* message is exactly "Status Code: <code>. Data from server:\n<cleaned
\* text>\n", the braces of the cleaned text left as they are.
C4_HtmlMessageVerbatim ==
    (Answered /\ IsHtml) =>
        /\ Failed
        /\ msg = <<"Status Code: ", ToString(call.r.status_code),
                   ". Data from server:\n">>
                 \o CleanedText(call.r) \o <<"\n">>

\* C4 amended: every HTML answer, whatever its status, is a Failure and never
\* a Success; its message is "Status Code: <code>. Data from server:\n<cleaned
\* text>\n" with every brace of the cleaned text doubled, where the cleaned
\* text is the tag-stripped body reduced to its non-blank trimmed lines (or
\* "Cannot parse error details" when the tag-stripping raises).
C4_HtmlMessageEscaped ==
    (Answered /\ IsHtml) =>
        /\ Failed
        /\ call.response = None
        /\ msg = <<"Status Code: ", ToString(call.r.status_code),
                   ". Data from server:\n">>
                 \o EscapeBraces(CleanedText(call.r)) \o <<"\n">>

\* an HTML page with status 200, a brace and blank lines ended as a failure
C4_Witness ==
    /\ Answered /\ IsHtml /\ ~call.r.soup_raises
    /\ call.r.status_code = 200
    /\ call.r.text = <<"<b>", " ", "a", "{", "\n", "\n", "a", " ", "</b>">>
    /\ Failed
    /\ msg = <<"Status Code: ", "200", ". Data from server:\n",
               "a", "{", "{", "\n", "a", "\n">>

\* C5: an empty body of a content type that is neither JSON nor HTML is a
\* Success with the empty object if and only if the status is exactly 200;
\* with any other status it is
\* Failure("Empty response and no information in the header").
C5_EmptyBody ==
    (Answered /\ IsOther /\ call.r.text = <<>>) =>
        IF call.r.status_code = 200
        THEN /\ call.ret_val = APP_SUCCESS
             /\ call.response = EmptyDict
             /\ call.action_result.status = "unset"
        ELSE /\ Failed
             /\ call.response = None
             /\ msg = <<"Empty response and no information in the header">>

\* an empty answer with status 201 ended as a failure
C5_Witness ==
    /\ Answered /\ IsOther /\ call.r.text = <<>>
    /\ call.r.status_code = 201
    /\ Failed

UnprocessedPrefix ==
    <<"Can't process response from server. Status Code: ",
      ToString(call.r.status_code), " Data from server: ">>

\* C6 as stated: a non-empty body of a content type that is neither JSON nor
\* HTML is, whatever the status, a Failure with the message "Can't process
\* response from server. Status Code: <code> Data from server: <body>", which
\* contains the body as the server returned it.
C6_UnprocessedVerbatim ==
    (Answered /\ IsOther /\ call.r.text # <<>>) =>
        /\ Failed
        /\ msg = UnprocessedPrefix \o call.r.text
        /\ Contains(msg, call.r.text)

\* C6 amended: such a body is, whatever the status, a Failure and never a
\* Success, with the message "Can't process response from server. Status
\* Code: <code> Data from server: <body>" in which every brace of the body is
\* doubled; the message contains the body as the server returned it when the
\* body holds no brace.
C6_UnprocessedEscaped ==
    (Answered /\ IsOther /\ call.r.text # <<>>) =>
        /\ Failed
        /\ call.response = None
        /\ msg = UnprocessedPrefix \o EscapeBraces(call.r.text)
        /\ (\A i \in 1..Len(call.r.text) : call.r.text[i] \notin {"{", "}"})
               => Contains(msg, call.r.text)

\* a plain-text body with a brace and status 200 ended as a failure whose
\* message does not contain the body as returned
C6_Witness ==
    /\ Answered /\ IsOther
    /\ call.r.status_code = 200
    /\ call.r.text = <<"a", "{", "a">>
    /\ Failed
    /\ ~Contains(msg, call.r.text)

\* C7 as stated: a transport error of the request is caught and returned as
\* Failure("Error connecting to server. Details: <cause>"); the caller sees
\* no fault.
C7_TransportErrorLowercase ==
    (call.made /\ call.sent /\ call.r.kind = "exception") =>
        /\ Failed
        /\ msg = <<"Error connecting to server. Details: ", call.r.cause>>
        /\ pc = "returned"

\* C7 amended: a transport error of the request is caught and returned as
\* Failure("Error Connecting to server. Details: <cause>") (capital C) without
\* payload; the caller sees no fault and the answer is not classified.
C7_TransportError ==
    (call.made /\ call.sent /\ call.r.kind = "exception") =>
        /\ Failed
        /\ call.response = None
        /\ msg = <<"Error Connecting to server. Details: ", call.r.cause>>
        /\ pc = "returned"

\* a handler's request timed out and the handler returned the failure
C7_Witness ==
    /\ action_id = "get_plan"
    /\ call.sent /\ call.r.kind = "exception" /\ call.r.cause = "Timeout"
    /\ pc = "returned" /\ ret = APP_ERROR

\* C8: create_workspace with a repository id and no (or an empty) token id
\* ends in a failure status whose message names the repository ID and the
\* token ID, and issues no request; with both given, the attributes of the
\* request body carry a vcs-repo entry with the two values.
C8_VcsValidation ==
    (action_id = "create_workspace" /\ Truthy(Get(param, "vcs_repo_id", "None"))) =>
        IF ~Truthy(Get(param, "vcs_token_id", "None"))
        THEN /\ pc = "returned"
             /\ ret = APP_ERROR /\ result.status = APP_ERROR
             /\ Contains(result.message, <<"the repository ID">>)
             /\ Contains(result.message, <<"the token ID">>)
             /\ ~call.made /\ ~call.sent /\ num_requests = 0
        ELSE /\ call.made /\ call.sent /\ call.method = "post"
             /\ <<"data", "attributes", "vcs-repo", "identifier">>
                    \in DOMAIN call.kwargs.json
             /\ <<"data", "attributes", "vcs-repo", "oauth-token-id">>
                    \in DOMAIN call.kwargs.json
             /\ call.kwargs.json[<<"data", "attributes", "vcs-repo", "identifier">>]
                    = param["vcs_repo_id"]
             /\ call.kwargs.json[<<"data", "attributes", "vcs-repo", "oauth-token-id">>]
                    = param["vcs_token_id"]

\* create_workspace got a repository id with an empty token id and failed
\* without a request
C8_Witness ==
    /\ action_id = "create_workspace"
    /\ "vcs_repo_id" \in DOMAIN param /\ param["vcs_repo_id"] = "repo"
    /\ "vcs_token_id" \in DOMAIN param /\ param["vcs_token_id"] = ""
    /\ pc = "returned" /\ ret = APP_ERROR /\ num_requests = 0

FullySucceeded == result.status = APP_SUCCESS /\ Len(result.data) = 1

FullyFailed ==
    result.status = APP_ERROR /\ result.message # <<>> /\ result.data = <<>>

\* C9 as stated: when the handler of any of the ten actions returns, the
\* action result is either fully succeeded (success status, a data item
\* recorded) or fully failed (failure status, a message, no data item).
C9_SucceededOrFailed ==
    (pc = "returned" /\ action_id \in ActionIds) =>
        (FullySucceeded \/ FullyFailed)

\* C9 amended: when the handler of any of the nine actions other than
\* test_connectivity returns, the action result is either fully succeeded
\* (success status, one data item recorded) or fully failed (failure status,
\* a message, no data item); test_connectivity records no data item: it ends
\* with success status and no data, or fully failed.
C9_SucceededOrFailedButTest ==
    (pc = "returned" /\ action_id \in ActionIds) =>
        /\ ret = result.status
        /\ IF action_id = "test_connectivity"
           THEN \/ result.status = APP_SUCCESS /\ result.data = <<>>
                \/ FullyFailed
           ELSE FullySucceeded \/ FullyFailed

\* test_connectivity returned success and recorded no data
C9_Witness ==
    /\ pc = "returned" /\ action_id = "test_connectivity"
    /\ ret = APP_SUCCESS /\ result.status = APP_SUCCESS /\ result.data = <<>>

\* C10: every run of a handler ends by returning a success or failure
\* status, a failure with its message; no run ends in an unhandled fault.
C10_NoUnhandledFault ==
    action_id \in ActionIds =>
        /\ pc = "returned"
        /\ ret \in {APP_SUCCESS, APP_ERROR}
        /\ ret = APP_ERROR => result.message # <<>>

\* the actions that change something at the server
MutatingActions == {"create_run", "create_workspace", "apply_run"}

\* C11: the request body of every mutating action (create_run,
\* create_workspace, apply_run) is a JSON-API envelope: 'data' is its only
\* top-level member and holds the resource 'type', the 'attributes' and the
\* 'relationships' if there are any; no relationship or resource linkage lies
\* outside 'data'.
C11_JsonApiEnvelope ==
    (action_id \in MutatingActions /\ call.made) =>
        /\ call.method = "post"
        /\ \A path \in DOMAIN call.kwargs.json :
               path # <<>> /\ Head(path) = "data"
        /\ <<"data", "type">> \in DOMAIN call.kwargs.json
        /\ \E path \in DOMAIN call.kwargs.json :
               Len(path) >= 2 /\ path[1] = "data" /\ path[2] = "attributes"

====
